---- MODULE Spec2Model ----
(***************************************************************************)
(* WaterCoin "Drop to Ocean": the water simulation engine                  *)
(* (MockWaterSimulationEngine, src/unnamed/part_000) and the milestone and *)
(* accumulation logic of the test runner (src/watercoin/test-runner.js).   *)
(*                                                                         *)
(* JavaScript numbers are IEEE-754 doubles.  waterLevel and the water      *)
(* surface are computed here as doubles: a non-negative double below 2^16  *)
(* is held exactly as a fixed-point number, NL limbs of 16 bits, least     *)
(* significant first, in units of 2^-64, and every arithmetic result is    *)
(* rounded to 53 significant bits, ties to even, as the hardware does.     *)
(***************************************************************************)
EXTENDS Integers, Sequences, FiniteSets, TLC

----------------------------------------------------------------------------
(* Doubles                                                                 *)

\* Limbs per number: 4 fraction limbs (2^-64) and one integer limb.
NL == 5
Base == 2^16
\* Significant bits of a double.
MantBits == 53

Limbs == 1..NL

Zero == [i \in Limbs |-> 0]

\* The double of a small non-negative integer n < 2^16.
FromInt(n) == [i \in Limbs |-> IF i = NL THEN n ELSE 0]

\* 2^k as limbs, 0 <= k < 16 * NL.
Pow2Limbs(k) == [i \in Limbs |-> IF i - 1 = k \div 16 THEN 2^(k % 16) ELSE 0]

\* Bit k of a.
Bit(a, k) == (a[(k \div 16) + 1] \div 2^(k % 16)) % 2

\* a mod 2^d.
LMod2(a, d) ==
  [i \in Limbs |->
     IF 16 * i <= d THEN a[i]
     ELSE IF 16 * (i - 1) >= d THEN 0
     ELSE a[i] % 2^(d - 16 * (i - 1))]

\* The single element of a one-element set: The({f(v) : v \in {e}}) computes
\* e once and hands its value to f.
The(S) == CHOOSE v \in S : TRUE

RECURSIVE LAddFrom(_, _, _, _)
\* Limbs i.. of a + b with carry c into limb i.
LAddFrom(a, b, i, c) ==
  IF i > NL THEN <<>>
  ELSE The({<<s % Base>> \o LAddFrom(a, b, i + 1, s \div Base) :
              s \in {a[i] + b[i] + c}})

\* Exact a + b (the sum stays below 2^16).
LAdd(a, b) == LAddFrom(a, b, 1, 0)

RECURSIVE LSubFrom(_, _, _, _)
\* Limbs i.. of a - b with borrow c out of limb i.
LSubFrom(a, b, i, c) ==
  IF i > NL THEN <<>>
  ELSE The({<<(s + Base) % Base>> \o
              LSubFrom(a, b, i + 1, IF s < 0 THEN 1 ELSE 0) :
              s \in {a[i] - b[i] - c}})

\* Exact a - b, for a >= b.
LSub(a, b) == LSubFrom(a, b, 1, 0)

RECURSIVE LMulFrom(_, _, _, _)
LMulFrom(a, k, i, c) ==
  IF i > NL THEN <<>>
  ELSE The({<<s % Base>> \o LMulFrom(a, k, i + 1, s \div Base) :
              s \in {a[i] * k + c}})

\* Exact a * k for a small integer k (k < 2^14).
LMulSmall(a, k) == LMulFrom(a, k, 1, 0)

RECURSIVE LDivFrom(_, _, _, _)
\* Long division of limbs i..1 of a by k, r the remainder of the limbs above:
\* the quotient limbs, most significant first, then the final remainder.
LDivFrom(a, k, i, r) ==
  IF i = 0 THEN <<r>>
  ELSE The({<<s \div k>> \o LDivFrom(a, k, i - 1, s % k) :
              s \in {r * Base + a[i]}})

\* floor(a / k) in units of 2^-64 for a small integer k, and whether a / k
\* has bits below 2^-64 (the sticky bit of the division).
LDivSmall(a, k) ==
  The({[quot |-> [i \in Limbs |-> q[NL + 1 - i]], inexact |-> q[NL + 1] # 0] :
         q \in {LDivFrom(a, k, NL, 0)}})

RECURSIVE LLessFrom(_, _, _)
LLessFrom(a, b, i) ==
  IF i = 0 THEN FALSE
  ELSE IF a[i] # b[i] THEN a[i] < b[i]
  ELSE LLessFrom(a, b, i - 1)

\* a < b and a <= b.
LLess(a, b) == The({LLessFrom(x[1], x[2], NL) : x \in {<<a, b>>}})
LLeq(a, b) == ~LLess(b, a)

\* Index of the highest set bit of the limb value n, 0 < n < Base.
LimbTop(n) == CHOOSE k \in 0..15 : 2^k <= n /\ n < 2^(k + 1)

\* Index of the highest set bit of a, -1 for zero.
TopBit(a) ==
  IF a = Zero THEN -1
  ELSE The({16 * (i - 1) + LimbTop(a[i]) :
              i \in {CHOOSE j \in Limbs :
                       a[j] # 0 /\ \A m \in Limbs : m > j => a[m] = 0}})

\* The exact value a cut to the d bits above its lowest d bits' rounding:
\* low is a mod 2^d; round to nearest, ties to even.
RoundAt(a, sticky, d, low) ==
  The({ IF \/ LLessFrom(half, low, NL)
           \/ low = half /\ (sticky \/ Bit(a, d) = 1)
          THEN The({LAdd(kept, Pow2Limbs(d)) : kept \in {LSub(a, low)}})
          ELSE LSub(a, low) :
        half \in {Pow2Limbs(d - 1)} })

\* Round an exact result to a double: keep MantBits significant bits, round
\* to nearest, ties to even; sticky says bits below 2^-64 were cut off.
Round53(a, sticky) ==
  The({ IF d <= 0 THEN a
        ELSE The({RoundAt(a, sticky, d, low) : low \in {LMod2(a, d)}}) :
        d \in {TopBit(a) - (MantBits - 1)} })

\* Double arithmetic: the exact result, then one rounding.
FAdd(a, b) ==
  The({Round53(v, FALSE) : v \in {The({LAdd(x[1], x[2]) : x \in {<<a, b>>}})}})
FSub(a, b) ==
  The({Round53(v, FALSE) : v \in {The({LSub(x[1], x[2]) : x \in {<<a, b>>}})}})
FMulInt(a, k) ==
  The({Round53(v, FALSE) : v \in {The({LMulSmall(x, k) : x \in {a}})}})
FDivInt(a, k) ==
  The({Round53(v.quot, v.inexact) :
         v \in {The({LDivSmall(x, k) : x \in {a}})}})
FMin(a, b) == The({IF LLess(x[2], x[1]) THEN x[2] ELSE x[1] : x \in {<<a, b>>}})

\* The double a decimal literal p/q denotes (the nearest double to p/q).
Literal(p, q) == FDivInt(FromInt(p), q)

\* |a - b|, exact.
LDist(a, b) ==
  The({IF LLess(x[1], x[2]) THEN LSub(x[2], x[1]) ELSE LSub(x[1], x[2]) :
         x \in {<<a, b>>}})

\* Byte j of a, byte 0 the least significant.
ByteOf(a, j) == (a[(j \div 2) + 1] \div 2^(8 * (j % 2))) % 256

RECURSIVE WStepFrom(_, _, _, _, _)
\* Limbs i.. of p * 256 + a * k, with carry c into limb i; p has 2 * NL limbs
\* (units of 2^-128), a has NL, k is a byte.
WStepFrom(p, a, k, i, c) ==
  IF i > 2 * NL THEN <<>>
  ELSE The({<<s % Base>> \o WStepFrom(p, a, k, i + 1, s \div Base) :
              s \in {p[i] * 256 + (IF i <= NL THEN a[i] * k ELSE 0) + c}})

RECURSIVE WMulFrom(_, _, _, _)
\* p * 256^(j + 1) + a * (bytes j..0 of b).
WMulFrom(p, a, b, j) ==
  IF j < 0 THEN p
  ELSE The({WMulFrom(q, a, b, j - 1) :
              q \in {WStepFrom(p, a, ByteOf(b, j), 1, 0)}})

\* Exact a * b as 2 * NL limbs in units of 2^-128.
WMul(a, b) == WMulFrom([i \in 1..(2 * NL) |-> 0], a, b, 2 * NL - 1)

\* Double multiplication, for a product of at least 2^-11 and below 2^16.
FMul(a, b) ==
  The({Round53([i \in Limbs |-> w[NL - 1 + i]],
               \E i \in 1..(NL - 1) : w[i] # 0) :
         w \in {The({WMul(x[1], x[2]) : x \in {<<a, b>>}})}})

FMax(a, b) == The({IF LLess(x[1], x[2]) THEN x[2] ELSE x[1] : x \in {<<a, b>>}})

\* Math.floor of a non-negative double.
Floor(a) == a[NL]

----------------------------------------------------------------------------
(* MockWaterSimulationEngine                                               *)
(*                                                                         *)
(* Units.  Positions x, y are in half pixels and velocities in half pixels *)
(* per millisecond; deltaTime is a whole number of milliseconds; life and  *)
(* opacity are in thousandths (life -= deltaTime * 0.001 takes deltaTime   *)
(* thousandths, opacity -= deltaTime * 0.002 takes twice that).  With the  *)
(* inputs below these quantities are small multiples of 1/2 or of 1/1000   *)
(* whose double arithmetic is exact or rounds far from the thresholds      *)
(* they are compared with, so integers compute them as the code does.      *)
(* waterLevel and the water surface are doubles.                           *)

VARIABLES
  waterLevel,      \* this.waterLevel, a double; the tests' local waterLevel
  droplets,        \* this.droplets, in array order
  splashEffects,   \* this.splashEffects, in array order
  lastResult,      \* what the last addDroplet returned, "none" before any
  ticks,           \* update calls so far
  collisions,      \* times a collision has raised waterLevel
  splashCount,     \* createSplash calls so far; a splash's id is its number
  aged,            \* whether update has ever removed a splash
  maxHits,         \* most collisions any one droplet has had
  milestones,      \* the tests' milestone record: name -> achieved
  results,         \* the milestone checks since the last reset, oldest
                   \* first: the level checked and the names reported
  now,             \* performance.now(), in milliseconds
  performanceLevel,\* PerformanceScaler.performanceLevel, a double
  lastAdjustment,  \* PerformanceScaler.lastAdjustment
  callLog,         \* the last two adjustPerformance calls, oldest first
  changeTimes,     \* the times of the last two calls that changed the level
  scaled,          \* the last getScaledValue call: argument, level, result
  scenario,        \* scenarios testPerformanceScaling has run
  testResults,     \* testPerformanceScaling's results
  pool,            \* ObjectPool.pool, the idle objects, in array order
  active,          \* ObjectPool.active, in array order
  created,         \* createFn calls so far; object n is the n-th created
  poolOp,          \* the last acquire or release: its object, for a
                   \* release whether the object was active, for an
                   \* acquire whether the object came from the idle pool
  storage,         \* localStorage: key -> the string stored, if any
  saved,           \* the values last written, as the tests hold them
  loaded,          \* the values last read back
  cycles,          \* save/load cycles of the running integrity test
  fpsHistory,      \* FrameRateMonitor.fpsHistory, doubles, oldest first
  fps,             \* FrameRateMonitor.fps, a double
  lastTime,        \* FrameRateMonitor.lastTime
  frameCount,      \* FrameRateMonitor.frameCount
  storageFails,    \* whether localStorage throws when it is called
  outcome,         \* the last Progress Manager call: what it found in the
                   \* store, what it returned, whether it let an exception
                   \* out, whether it reported a warning, and the number of
                   \* update calls made before it
  definedClasses,  \* the suites whose tester class the page defines
  testSuites,      \* the keys of this.testSuites, in insertion order
  runnerResults,   \* ComprehensiveTestRunner.results, by category
  overallResults,  \* ComprehensiveTestRunner.overallResults
  runnerPc,        \* "new", "ready", "running" or "done"
  suiteIndex       \* the suite the loop of runAllTests is at

engineVars == <<waterLevel, droplets, splashEffects, lastResult, ticks,
                collisions, splashCount, aged, maxHits>>

milestoneVars == <<milestones, results>>

scalerVars == <<now, performanceLevel, lastAdjustment, callLog, changeTimes,
                scaled, scenario, testResults>>

poolVars == <<pool, active, created, poolOp>>

storageVars == <<storage, saved, loaded, cycles>>

monitorVars == <<fpsHistory, fps, lastTime, frameCount>>

managerVars == <<storageFails, outcome>>

runnerVars == <<definedClasses, testSuites, runnerResults, overallResults,
                runnerPc, suiteIndex>>

\* The variables of the monitor, the Progress Manager and the test runner.
restVars == <<monitorVars, managerVars, runnerVars>>

\* The variables of the components other than the engine and the milestones.
componentVars == <<scalerVars, poolVars, storageVars, restVars>>

vars == <<engineVars, milestoneVars, componentVars>>

\* Program constants (constructor).
gravity == 1             \* 0.5 pixel = 1 half pixel
maxDroplets == 10
maxSplashEffects == 5
dropletIncrementMutant == Literal(8, 100)
dropletIncrement == Literal(8, 10)

\* Inputs of the model.
\* Math.random() draws, in halves: 1 is the draw 0.5.
RandomDraws == {1}
\* Spawn positions in half pixels: x = 100, y = 380.
SpawnXs == {200}
SpawnYs == {760}
\* deltaTime values in milliseconds, of Spec and of FillSpec.
DeltaTimes == {0, 4, 8}
FillDeltaTimes == {1000}
\* Most update calls in a behaviour of Spec.
MaxTicks == 2
\* Most update calls in a behaviour of FillSpec.
MaxFillTicks == 14
\* Spawn heights of DrainSpec, in half pixels: y = 380, and y = -2000000,
\* so far above the canvas that the droplet's life runs out in the air.
DrainSpawnYs == {760, -4000000}
\* deltaTime values of DrainSpec: half a droplet's life, and all of it.
DrainDeltaTimes == {500, 1000}
\* Most update calls in a behaviour of DrainSpec.
MaxDrainTicks == 3
\* The largest deltaTime a caller is expected to pass, in milliseconds.
maxFrameStep == 33

\* A half-pixel count h >= 0 as a double (h / 2).
HalfToDbl(h) ==
  [i \in Limbs |-> IF i = NL THEN h \div 2
                   ELSE IF i = NL - 1 THEN (h % 2) * 2^15 ELSE 0]

\* droplet.y >= waterSurfaceY, y in half pixels, the surface a double <= 400.
YAtOrBelow(y, surface) ==
  IF y < 0 THEN FALSE
  ELSE IF y \div 2 >= Base THEN TRUE
  ELSE LLeq(surface, HalfToDbl(y))

\* The guard of addDroplet.
DropletCapReachedMutant(ds) == Len(ds) > maxDroplets
DropletCapReached(ds) == Len(ds) >= maxDroplets

\* The droplet addDroplet pushes; r1, r2 are its two random draws.
NewDroplet(x, y, r1, r2) ==
  [x |-> x, y |-> y,
   velocityX |-> 2 * (r1 - 1),      \* (Math.random() - 0.5) * 2
   velocityY |-> 0,
   size |-> 4 + r2,                 \* 4 + Math.random() * 2
   life |-> 1000,
   splashed |-> FALSE,
   hits |-> 0,                      \* collisions of this droplet so far
   hitTick |-> 0]                   \* the update call of its last collision

\* The splash createSplash pushes; n is its creation number.
NewSplash(x, y, r1, r2, n) ==
  [x |-> x, y |-> y,
   radius |-> 2,
   maxRadius |-> 30 + 10 * r1,      \* 30 + Math.random() * 20
   expansionSpeed |-> 50 + 15 * r2, \* 50 + Math.random() * 30
   opacity |-> 800,
   life |-> 1000,
   id |-> n]

\* createSplash on the splash list ss.
PushSplashMutant(ss, s) ==
  IF Len(ss) >= maxSplashEffects
    THEN SubSeq(ss, 1, Len(ss) - 1) \o <<s>>
    ELSE ss \o <<s>>
PushSplash(ss, s) ==
  IF Len(ss) >= maxSplashEffects THEN Tail(ss) \o <<s>> ELSE ss \o <<s>>

\* waterLevel after one collision: Math.min(100, waterLevel + dropletIncrement)
AccumulateMutant(level) == FAdd(level, dropletIncrement)
Accumulate(level) == FMin(FromInt(100), FAdd(level, dropletIncrement))

\* 400 - (waterLevel / 100) * 300
WaterSurfaceY(level) ==
  FSub(FromInt(400), FMulInt(FDivInt(level, 100), 300))

\* Whether the collision branch runs for droplet d, moved to y.
CollidesMutant(d, y, surface) == YAtOrBelow(y, surface)
Collides(d, y, surface) == YAtOrBelow(y, surface) /\ ~d.splashed

\* Remove element i of sequence s (splice(i, 1)).
Splice(s, i) == SubSeq(s, 1, i - 1) \o SubSeq(s, i + 1, Len(s))

\* The engine record e after the collision branch of update: a droplet at x
\* has hit the surface e.surface; rs are the new splash's draws.  e.surface
\* is waterSurfaceY, which update computes for every droplet from waterLevel
\* alone: it is kept in e and computed anew when waterLevel changes.
Collision(e, x, rs) ==
  The({ [e EXCEPT !.waterLevel = level,
                  !.surface = WaterSurfaceY(level),
                  !.splashEffects =
                     PushSplash(e.splashEffects,
                                NewSplash(x, e.surface, rs[1], rs[2],
                                          e.splashCount + 1)),
                  !.splashCount = e.splashCount + 1,
                  !.collisions = e.collisions + 1] :
        level \in {Accumulate(e.waterLevel)} })

\* droplet.y > 450 || droplet.life <= 0, y in half pixels.
ShouldCullMutant(d) == d.y > 900
ShouldCull(d) == d.y > 900 \/ d.life <= 0

\* The end of one iteration of update's droplet loop: droplets[i], now d, is
\* removed, or stays and ages.
CullOrAge(e, i, deltaTime, d) ==
  [e EXCEPT !.droplets =
               IF ShouldCull(d)
                 THEN Splice(e.droplets, i)
                 ELSE [e.droplets EXCEPT
                         ![i] = [d EXCEPT !.life = d.life - deltaTime]],
            !.maxHits = IF d.hits > e.maxHits THEN d.hits ELSE e.maxHits]

\* Droplet d after the integration step of update.
Moved(d, deltaTime) ==
  The({ [d EXCEPT !.velocityY = vy,
                  !.x = d.x + d.velocityX * deltaTime,
                  !.y = d.y + vy * deltaTime] :
        vy \in {d.velocityY + gravity * deltaTime} })

\* One iteration of update's droplet loop, for droplets[i], on the engine
\* record e; rnd[i] are the draws of the splash it may create.
DropletStep(e, i, deltaTime, rnd) ==
  The({ IF Collides(d, d.y, e.surface)
          THEN CullOrAge(Collision(e, d.x, rnd[i]), i, deltaTime,
                         [d EXCEPT !.splashed = TRUE, !.hits = d.hits + 1,
                                   !.hitTick = e.tick])
          ELSE CullOrAge(e, i, deltaTime, d) :
        d \in {Moved(e.droplets[i], deltaTime)} })

RECURSIVE UpdateDroplets(_, _, _, _)
\* update's droplet loop from index i down to 1.
UpdateDroplets(e, i, deltaTime, rnd) ==
  IF i = 0 THEN e
  ELSE The({UpdateDroplets(v, i - 1, deltaTime, rnd) :
              v \in {DropletStep(e, i, deltaTime, rnd)}})

\* One splash after update's splash loop has aged it.
AgeSplash(s, deltaTime) ==
  [s EXCEPT !.radius = s.radius + s.expansionSpeed * deltaTime,
            !.opacity = s.opacity - 2 * deltaTime,
            !.life = s.life - deltaTime]

SplashDone(s) == s.life <= 0 \/ s.opacity <= 0

RECURSIVE UpdateSplashes(_, _)
\* update's splash loop: every splash is aged, the finished ones removed.
UpdateSplashes(ss, deltaTime) ==
  IF ss = <<>> THEN <<>>
  ELSE The({ (IF SplashDone(s) THEN <<>> ELSE <<s>>)
               \o UpdateSplashes(Tail(ss), deltaTime) :
             s \in {AgeSplash(Head(ss), deltaTime)} })

\* addDroplet(x, y)
AddDroplet(x, y) ==
  /\ \E r1 \in RandomDraws, r2 \in RandomDraws :
       IF DropletCapReached(droplets)
         THEN /\ lastResult' = "false"
              /\ droplets' = droplets
         ELSE /\ lastResult' = "true"
              /\ droplets' = Append(droplets, NewDroplet(x, y, r1, r2))
  /\ UNCHANGED <<waterLevel, splashEffects, ticks, collisions, splashCount,
                 aged, maxHits>>
  /\ UNCHANGED <<milestoneVars, componentVars>>

\* update(deltaTime)
Update(deltaTime) ==
  /\ \E rnd \in [1..Len(droplets) -> RandomDraws \X RandomDraws] :
       LET e0 == [waterLevel |-> waterLevel, droplets |-> droplets,
                  splashEffects |-> splashEffects,
                  splashCount |-> splashCount, collisions |-> collisions,
                  maxHits |-> maxHits, tick |-> ticks + 1,
                  surface |-> WaterSurfaceY(waterLevel)]
       IN \E e \in {UpdateDroplets(e0, Len(droplets), deltaTime, rnd)} :
            \E ss \in {UpdateSplashes(e.splashEffects, deltaTime)} :
              /\ waterLevel' = e.waterLevel
              /\ droplets' = e.droplets
              /\ splashEffects' = ss
              /\ splashCount' = e.splashCount
              /\ collisions' = e.collisions
              /\ maxHits' = e.maxHits
              /\ aged' = (aged \/ Len(ss) < Len(e.splashEffects))
  /\ ticks' = ticks + 1
  /\ UNCHANGED lastResult
  /\ UNCHANGED <<milestoneVars, componentVars>>

----------------------------------------------------------------------------
(* Milestones and the accumulation flow of the test runner                 *)

\* The milestone names in the order Object.entries visits them.
MilestoneNamesMutant == <<"completion", "waves", "fish">>
MilestoneNames == <<"fish", "waves", "completion">>

\* The thresholds of the milestone record.
threshold == [fish |-> 30, waves |-> 70, completion |-> 100]

\* The milestone record of the tests, nothing achieved.
NoMilestones == [fish |-> FALSE, waves |-> FALSE, completion |-> FALSE]

\* testMilestoneThresholds: the levels it checks and what it expects each
\* check to report.
testLevels == <<25, 30, 65, 70, 95, 100>>
expectedAchievements ==
  << <<>>, <<"fish">>, <<"fish">>, <<"fish", "waves">>, <<"fish", "waves">>,
     <<"fish", "waves", "completion">> >>

\* Most milestone checks between two resets in a behaviour of MilestoneSpec.
MaxChecks == 3
\* Most collisions in a behaviour of FlowSpec.
MaxFlowCollisions == 130
\* testEndToEndFlow: Math.ceil(targetLevel / dropletIncrement)
requiredDroplets == 125

\* The elements of a sequence.
Range(s) == {s[i] : i \in DOMAIN s}

\* !milestone.achieved && level >= milestone.threshold, level a double.
MilestoneDueMutant(ms, k, level) == LLeq(FromInt(threshold[k]), level)
MilestoneDue(ms, k, level) == ~ms[k] /\ LLeq(FromInt(threshold[k]), level)

\* The achieved flag of milestone k after a check at level.
AchievedAfterMutant(ms, k, level) == LLeq(FromInt(threshold[k]), level)
AchievedAfter(ms, k, level) == ms[k] \/ MilestoneDue(ms, k, level)

\* One milestone check at level on the record ms: the record afterwards and
\* the names pushed to achieved, in the order visited.
CheckMilestones(ms, level) ==
  [milestones |-> [k \in DOMAIN ms |-> AchievedAfter(ms, k, level)],
   achieved |-> SelectSeq(MilestoneNames,
                          LAMBDA k : MilestoneDue(ms, k, level))]

\* The record after the reset loop of testMilestoneReset.
ResetRecord(ms) == [k \in DOMAIN ms |-> FALSE]

\* One iteration of testMilestoneThresholds' loop, at any of its levels.
CheckAtLevel(level) ==
  /\ Len(results) < MaxChecks
  /\ \E r \in {CheckMilestones(milestones, FromInt(level))} :
       /\ milestones' = r.milestones
       /\ results' = Append(results, [level |-> level, achieved |-> r.achieved])
  /\ UNCHANGED <<engineVars, componentVars>>

\* The reset of testMilestoneReset; the log of checks starts anew.
ResetMilestones ==
  /\ milestones' = ResetRecord(milestones)
  /\ results' = <<>>
  /\ UNCHANGED <<engineVars, componentVars>>

\* One iteration of testEndToEndFlow's loop: a collision, then the check.
FlowStep ==
  /\ collisions < MaxFlowCollisions
  /\ \E level \in {Accumulate(waterLevel)} :
       /\ waterLevel' = level
       /\ milestones' = CheckMilestones(milestones, level).milestones
  /\ collisions' = collisions + 1
  /\ UNCHANGED <<droplets, splashEffects, lastResult, ticks, splashCount,
                 aged, maxHits, results, componentVars>>

----------------------------------------------------------------------------
(* PerformanceScaler and testPerformanceScaling                            *)
(*                                                                         *)
(* The clock performance.now() is a whole number of milliseconds.  The     *)
(* monitor's fps is in tenths of a frame per second.                       *)

\* Program constants (constructor).
adjustmentCooldown == 2000
minPerformanceLevel == Literal(3, 10)

\* Inputs of the model.
\* How far the clock moves in one step, in ScalerSpec, in LadderSpec and in
\* ScalingTestSpec.
ClockSteps == {500}
LadderClockSteps == {2000}
TestClockSteps == {50}
\* The monitor's fps when adjustPerformance is called, in tenths.
MonitorFps == {150, 250, 295, 600}
\* The arguments of getScaledValue.
BaseValues == {0, 1, 10}
\* The clock's last value in ScalerSpec and in LadderSpec.
MaxTime == 4500
MaxLadderTime == 8000
\* The latest start of testPerformanceScaling in ScalingTestSpec.
MaxTestStart == 2500
\* RecoverySpec: the time between two frames that call adjustPerformance,
\* the fps the monitor shows once the load is gone, the time up to which
\* it may show any fps of MonitorFps, and the clock's last value.
RecoveryClockSteps == {2000}
RecoveryFps == {505, 600}
MaxDegradeTime == 8000
MaxRecoveryTime == 34000

\* testPerformanceScaling: the fps of its scenarios, in tenths, and the
\* delay after each.
scenarios == <<600, 450, 250, 150>>
scenarioDelay == 50

\* FrameRateMonitor.getCurrentFps: Math.round(this.fps), fps in tenths.
GetCurrentFps(fps10) == (fps10 + 5) \div 10

\* currentTime - this.lastAdjustment < this.adjustmentCooldown
InCooldownMutant(t, last) == t - last < 0
InCooldown(t, last) == t - last < adjustmentCooldown

\* The factor of the ladder's first rung.
criticalFactorMutant == Literal(16, 10)
criticalFactor == Literal(6, 10)

\* The factor of the ladder's recovery rung.
recoveryFactorMutant == Literal(10, 10)
recoveryFactor == Literal(11, 10)

\* Math.max(this.minPerformanceLevel, level)
FloorLevelMutant(level) == level
FloorLevel(level) == FMax(minPerformanceLevel, level)

\* The ladder of adjustPerformance: the level after an evaluation at
\* currentFps, the monitor's rounded fps.
Ladder(level, currentFps) ==
  IF currentFps < 20 THEN FloorLevel(FMul(level, criticalFactor))
  ELSE IF currentFps < 30 THEN FloorLevel(FMul(level, Literal(8, 10)))
  ELSE IF currentFps > 50 /\ LLess(level, FromInt(1))
    THEN FMin(FromInt(1), FMul(level, recoveryFactor))
  ELSE level

\* this.lastAdjustment after an evaluation at time t that took the level
\* from level to v.
StampMutant(level, v, t, last) == IF v = level THEN last ELSE t
Stamp(level, v, t, last) == t

\* adjustPerformance at time t with the monitor's fps at fps10, on a scaler
\* with the given level and lastAdjustment: the scaler afterwards, what the
\* call returns, and whether it got past the cooldown check.
AdjustedMutant(level, last, t, fps10) ==
  IF InCooldown(t, last)
    THEN [performanceLevel |-> level, lastAdjustment |-> last,
          returned |-> level, evaluated |-> FALSE]
    ELSE The({ [performanceLevel |-> v, lastAdjustment |-> last,
                returned |-> v, evaluated |-> TRUE] :
               v \in {Ladder(level, GetCurrentFps(fps10))} })
Adjusted(level, last, t, fps10) ==
  IF InCooldown(t, last)
    THEN [performanceLevel |-> level, lastAdjustment |-> last,
          returned |-> level, evaluated |-> FALSE]
    ELSE The({ [performanceLevel |-> v,
                lastAdjustment |-> Stamp(level, v, t, last),
                returned |-> v, evaluated |-> TRUE] :
               v \in {Ladder(level, GetCurrentFps(fps10))} })

\* The last evaluating call before the call now being made, if any.
PriorEval ==
  IF callLog = <<>> THEN <<>>
  ELSE LET c == callLog[Len(callLog)]
       IN IF c.evaluated THEN <<[time |-> c.time, returned |-> c.returned]>>
          ELSE c.priorEval

\* The logs after a call at time t and fps10 whose outcome is r.
LogCallAt(t, fps10, r) ==
  /\ callLog' =
       (IF callLog = <<>> THEN <<>> ELSE <<callLog[Len(callLog)]>>)
         \o <<[time |-> t, fps |-> GetCurrentFps(fps10),
               before |-> performanceLevel, returned |-> r.returned,
               evaluated |-> r.evaluated,
               sinceAdjust |-> t - lastAdjustment,
               priorEval |-> PriorEval]>>
  /\ changeTimes' =
       IF r.performanceLevel = performanceLevel THEN changeTimes
       ELSE (IF changeTimes = <<>> THEN <<>>
             ELSE <<changeTimes[Len(changeTimes)]>>) \o <<t>>

\* The logs after a call made now.
LogCall(fps10, r) == LogCallAt(now, fps10, r)

\* adjustPerformance(frameRateMonitor), the monitor's fps at fps10.
AdjustPerformance(fps10) ==
  /\ \E r \in {Adjusted(performanceLevel, lastAdjustment, now, fps10)} :
       /\ performanceLevel' = r.performanceLevel
       /\ lastAdjustment' = r.lastAdjustment
       /\ LogCall(fps10, r)
  /\ UNCHANGED <<now, scaled, scenario, testResults>>
  /\ UNCHANGED <<engineVars, milestoneVars, poolVars, storageVars, restVars>>

\* Math.max(1, Math.floor(baseValue * level)), baseValue a small integer >= 0.
ScaledValueMutant(level, baseValue) == Floor(FMulInt(level, baseValue))
ScaledValue(level, baseValue) ==
  The({IF v < 1 THEN 1 ELSE v : v \in {Floor(FMulInt(level, baseValue))}})

\* getScaledValue(baseValue)
GetScaledValue(baseValue) ==
  /\ scaled' = <<[baseValue |-> baseValue, level |-> performanceLevel,
                  value |-> ScaledValue(performanceLevel, baseValue)]>>
  /\ UNCHANGED <<now, performanceLevel, lastAdjustment, callLog, changeTimes,
                 scenario, testResults>>
  /\ UNCHANGED <<engineVars, milestoneVars, poolVars, storageVars, restVars>>

\* Time passes.
Advance(d) ==
  /\ now' = now + d
  /\ UNCHANGED <<performanceLevel, lastAdjustment, callLog, changeTimes,
                 scaled, scenario, testResults>>
  /\ UNCHANGED <<engineVars, milestoneVars, poolVars, storageVars, restVars>>

\* One frame of a loop that calls adjustPerformance every d milliseconds:
\* d milliseconds pass, then the scaler adjusts to the monitor's fps.
Frame(d, fps10) ==
  /\ now' = now + d
  /\ \E r \in {Adjusted(performanceLevel, lastAdjustment, now + d, fps10)} :
       /\ performanceLevel' = r.performanceLevel
       /\ lastAdjustment' = r.lastAdjustment
       /\ LogCallAt(now + d, fps10, r)
  /\ UNCHANGED <<scaled, scenario, testResults>>
  /\ UNCHANGED <<engineVars, milestoneVars, poolVars, storageVars, restVars>>

\* One iteration of testPerformanceScaling's loop: the scenario's fps is put
\* in the monitor, the scaler adjusts, the result is recorded, 50 ms pass.
RunScenario ==
  /\ scenario < Len(scenarios)
  /\ \E r \in {Adjusted(performanceLevel, lastAdjustment, now,
                        scenarios[scenario + 1])} :
       /\ performanceLevel' = r.performanceLevel
       /\ lastAdjustment' = r.lastAdjustment
       /\ LogCall(scenarios[scenario + 1], r)
       /\ scaled' = <<[baseValue |-> 10, level |-> r.performanceLevel,
                       value |-> ScaledValue(r.performanceLevel, 10)]>>
       /\ testResults' =
            Append(testResults, [initialLevel |-> performanceLevel,
                                 adjustedLevel |-> r.returned])
  /\ scenario' = scenario + 1
  /\ now' = now + scenarioDelay
  /\ UNCHANGED <<engineVars, milestoneVars, poolVars, storageVars, restVars>>

\* results.some(r => r.adjustedLevel !== r.initialLevel)
hasScaling ==
  \E i \in DOMAIN testResults :
    testResults[i].adjustedLevel # testResults[i].initialLevel

----------------------------------------------------------------------------
(* ObjectPool                                                              *)
(*                                                                         *)
(* createFn returns a new object at every call: objects are numbered in    *)
(* the order of their creation.  0 is an object that is not of this pool.  *)

\* The constructor's initialSize.
initialSize == 2
\* this.pool.length < 50
retentionCap == 50
\* Most objects createFn makes in a behaviour of PoolSpec.
MaxObjects == 4

\* The pool after this.pool.pop().
PoppedMutant(p) == p
Popped(p) == SubSeq(p, 1, Len(p) - 1)

\* this.active.indexOf(obj), 0 for -1.
IndexOf(s, obj) ==
  IF \E i \in DOMAIN s : s[i] = obj
    THEN CHOOSE i \in DOMAIN s : s[i] = obj /\ \A j \in 1..(i - 1) : s[j] # obj
    ELSE 0

\* index !== -1
FoundMutant(index) == TRUE
Found(index) == index # 0

\* acquire()
Acquire ==
  /\ IF Len(pool) > 0
       THEN /\ poolOp' = [op |-> "acquire", obj |-> pool[Len(pool)],
                          wasActive |-> FALSE, reused |-> TRUE]
            /\ pool' = Popped(pool)
            /\ created' = created
       ELSE /\ created < MaxObjects
            /\ poolOp' = [op |-> "acquire", obj |-> created + 1,
                          wasActive |-> FALSE, reused |-> FALSE]
            /\ pool' = pool
            /\ created' = created + 1
  /\ active' = Append(active, poolOp'.obj)
  /\ UNCHANGED <<engineVars, milestoneVars, scalerVars, storageVars, restVars>>

\* release(obj)
Release(obj) ==
  /\ \E index \in {IndexOf(active, obj)} :
       IF Found(index)
         THEN /\ active' = Splice(active, index)
              /\ pool' = IF Len(pool) < retentionCap
                           THEN Append(pool, obj) ELSE pool
         ELSE UNCHANGED <<pool, active>>
  /\ poolOp' = [op |-> "release", obj |-> obj,
                wasActive |-> obj \in Range(active), reused |-> FALSE]
  /\ UNCHANGED created
  /\ UNCHANGED <<engineVars, milestoneVars, scalerVars, storageVars, restVars>>

----------------------------------------------------------------------------
(* Number <-> string, as localStorage and JSON see them                    *)
(*                                                                         *)
(* A string is a sequence of one-character strings.  The numbers converted *)
(* are 0 or at least 2^-10 and below 2^16: Number::toString writes them in *)
(* plain decimal notation, with the fewest digits that read back as the    *)
(* same double.                                                            *)

DigitChars == <<"0", "1", "2", "3", "4", "5", "6", "7", "8", "9">>
DigitChar(n) == DigitChars[n + 1]
IsDigit(c) == \E n \in 0..9 : DigitChars[n + 1] = c
DigitValue(c) == CHOOSE n \in 0..9 : DigitChars[n + 1] = c

RECURSIVE IntDigits(_)
\* The decimal digits of the integer n >= 0.
IntDigits(n) ==
  IF n < 10 THEN <<DigitChar(n)>>
  ELSE IntDigits(n \div 10) \o <<DigitChar(n % 10)>>

\* The fraction of a: a with its integer limb cleared.
Frac(a) == [i \in Limbs |-> IF i = NL THEN 0 ELSE a[i]]

RECURSIVE Increment(_)
\* The digit string s + 1 in its last place; a carry out of the first digit
\* puts a "1" in front.
Increment(s) ==
  IF s = <<>> THEN <<"1">>
  ELSE IF s[Len(s)] = "9"
    THEN Increment(SubSeq(s, 1, Len(s) - 1)) \o <<"0">>
    ELSE SubSeq(s, 1, Len(s) - 1) \o <<DigitChar(DigitValue(s[Len(s)]) + 1)>>

\* The digits ds, the first k of them before the point.
WithPoint(ds, k) ==
  IF k = Len(ds) THEN ds
  ELSE SubSeq(ds, 1, k) \o <<".">> \o SubSeq(ds, k + 1, Len(ds))

RECURSIVE ShortestFrom(_, _, _, _, _, _)
\* The shortest decimal that reads back as the double with integer digits
\* int and mantissa parity even: ds are the fraction digits taken so far,
\* f what is left of the fraction after them (f / 10^Len(ds) is the distance
\* from the digits so far up to the double), below and above half the gap
\* to the next double below and above, times 10^Len(ds).
ShortestFrom(int, ds, f, below, above, even) ==
  LET up == LSub(Pow2Limbs(64), f)
      downOk == LLess(f, below) \/ (f = below /\ even)
      upOk == LLess(up, above) \/ (up = above /\ even)
      useUp == upOk /\ (~downOk \/ LLess(up, f))
      all == int \o ds
  IN IF downOk \/ upOk
       THEN IF useUp
              THEN The({WithPoint(v, Len(v) - Len(ds)) : v \in {Increment(all)}})
              ELSE WithPoint(all, Len(int))
       ELSE The({ShortestFrom(int, ds \o <<DigitChar(g[NL])>>, Frac(g),
                              LMulSmall(below, 10), LMulSmall(above, 10),
                              even) :
                   g \in {LMulSmall(f, 10)}})

\* Number::toString(a), radix 10.
NumberToString(a) ==
  IF a = Zero THEN <<"0">>
  ELSE The({ShortestFrom(IntDigits(a[NL]), <<>>, Frac(a),
                         IF a = Pow2Limbs(tb) THEN Pow2Limbs(tb - 54)
                                              ELSE Pow2Limbs(tb - 53),
                         Pow2Limbs(tb - 53),
                         Bit(a, tb - 52) = 0) :
              tb \in {TopBit(a)}})

RECURSIVE SeqMulAddFrom(_, _, _, _)
\* Limbs i.. of a * k + c, a of any length.
SeqMulAddFrom(a, k, i, c) ==
  IF i > Len(a) THEN <<>>
  ELSE The({<<s % Base>> \o SeqMulAddFrom(a, k, i + 1, s \div Base) :
              s \in {a[i] * k + c}})

RECURSIVE SeqDivFrom(_, _, _, _)
\* Long division of limbs i..1 of a by k: the quotient limbs, most
\* significant first, then the remainder.
SeqDivFrom(a, k, i, r) ==
  IF i = 0 THEN <<r>>
  ELSE The({<<s \div k>> \o SeqDivFrom(a, k, i - 1, s % k) :
              s \in {r * Base + a[i]}})

RECURSIVE DigitsValue(_, _)
\* The integer the digit string s denotes after the limbs acc, as limbs.
DigitsValue(s, acc) ==
  IF s = <<>> THEN acc
  ELSE The({DigitsValue(Tail(s), v) :
              v \in {SeqMulAddFrom(acc, 10, 1, DigitValue(Head(s)))}})

RECURSIVE ScaleDown(_, _, _)
\* w / 10^n rounded down, and whether anything was cut off.
ScaleDown(w, n, sticky) ==
  IF n = 0 THEN [quot |-> w, inexact |-> sticky]
  ELSE The({ScaleDown([i \in 1..Len(w) |-> q[Len(w) + 1 - i]], n - 1,
                      sticky \/ q[Len(w) + 1] # 0) :
              q \in {SeqDivFrom(w, 10, Len(w), 0)}})

\* The digits of s before its first character that is no digit.
RECURSIVE LeadingDigits(_)
LeadingDigits(s) ==
  IF s = <<>> \/ ~IsDigit(Head(s)) THEN <<>>
  ELSE <<Head(s)>> \o LeadingDigits(Tail(s))

\* The number a decimal string "ddd" or "ddd.ddd" denotes: the nearest
\* double (StringToNumber, JSON.parse of a number).
StringToNumber(s) ==
  LET int == LeadingDigits(s)
      frac == SubSeq(s, Len(int) + 2, Len(s))
      \* the fraction digits as an integer times 2^64, then over 10^n
      n == DigitsValue(frac, [i \in 1..(NL + 1) |-> 0])
      shifted == [i \in 1..(2 * NL) |-> IF i < NL THEN 0 ELSE n[i - NL + 1]]
  IN The({ Round53([i \in Limbs |->
                      IF i = NL THEN DigitsValue(int, <<0>>)[1]
                                ELSE q.quot[i]], q.inexact) :
           q \in {ScaleDown(shifted, Len(frac), FALSE)} })

\* parseInt(s, 10) for a string that starts with a digit.
ParseInt(s) == FromInt(DigitsValue(LeadingDigits(s), <<0>>)[1])

----------------------------------------------------------------------------
(* Persistence (test-runner.js: testProgressPersistence, testDataIntegrity)*)
(*                                                                         *)
(* localStorage holds strings under two keys: the water level alone under  *)
(* "progress", the record {waterLevel, milestones} as JSON under "record". *)
(* A JSON text is held by its values, punctuation left out: the digits of  *)
(* the number and the literal of each flag.                                *)

\* getItem of a key never set, and a test variable not yet assigned.
null == <<>>

testProgress == 42
testWaterLevel == Literal(755, 10)
integrityCycles == 10

\* The levels the tests save: the engine's current one and their literal.
ProgressLevels == {waterLevel, FromInt(testProgress)}
RecordLevels == {waterLevel, testWaterLevel}
MilestoneFlags == [Range(MilestoneNames) -> BOOLEAN]

\* No persistence test is running.
StorageIdle == saved["progress"] = null /\ saved["record"] = null

\* JSON.stringify of a number and of a boolean.
JsonNumberMutant(a) == IntDigits(a[NL])
JsonNumber(a) == NumberToString(a)
JsonBoolean(b) == IF b THEN "true" ELSE "false"

\* JSON.stringify(record) and JSON.parse(text).
Stringify(record) ==
  [waterLevel |-> JsonNumber(record.waterLevel),
   milestones |-> [m \in DOMAIN record.milestones |->
                     JsonBoolean(record.milestones[m])]]
Parse(text) ==
  [waterLevel |-> StringToNumber(text.waterLevel),
   milestones |-> [m \in DOMAIN text.milestones |->
                     text.milestones[m] = "true"]]

\* localStorage.setItem(storageKey, testProgress.toString())
SaveProgress(level) ==
  /\ StorageIdle
  /\ saved' = [saved EXCEPT !["progress"] = level]
  /\ storage' = [storage EXCEPT !["progress"] = NumberToString(level)]
  /\ UNCHANGED <<loaded, cycles, engineVars, milestoneVars, scalerVars,
                 poolVars, restVars>>

\* loaded = parseInt(localStorage.getItem(storageKey), 10)
LoadProgress ==
  /\ storage["progress"] # null
  /\ loaded' = [loaded EXCEPT !["progress"] = ParseInt(storage["progress"])]
  /\ UNCHANGED <<storage, saved, cycles, engineVars, milestoneVars,
                 scalerVars, poolVars, restVars>>

\* localStorage.removeItem(storageKey), the end of testProgressPersistence.
RemoveProgress ==
  /\ loaded["progress"] # null
  /\ storage' = [storage EXCEPT !["progress"] = null]
  /\ saved' = [saved EXCEPT !["progress"] = null]
  /\ loaded' = [loaded EXCEPT !["progress"] = null]
  /\ UNCHANGED <<cycles, engineVars, milestoneVars, scalerVars, poolVars, restVars>>

\* testDataIntegrity is entered: testData is the record to save.
StartDataIntegrity(level, flags) ==
  /\ StorageIdle
  /\ saved' = [saved EXCEPT !["record"] =
                 [waterLevel |-> level, milestones |-> flags]]
  /\ cycles' = 0
  /\ UNCHANGED <<storage, loaded, engineVars, milestoneVars, scalerVars,
                 poolVars, restVars>>

\* One turn of its loop: setItem(JSON.stringify(testData)), then
\* loaded = JSON.parse(getItem).
DataIntegrityCycle ==
  /\ saved["record"] # null
  /\ cycles < integrityCycles
  /\ loaded["record"] # null => loaded["record"] = saved["record"]
  /\ \E text \in {Stringify(saved["record"])} :
       /\ storage' = [storage EXCEPT !["record"] = text]
       /\ loaded' = [loaded EXCEPT !["record"] = Parse(text)]
  /\ cycles' = cycles + 1
  /\ UNCHANGED <<saved, engineVars, milestoneVars, scalerVars, poolVars, restVars>>

\* Its end, after the last cycle or a corrupted one: removeItem.
EndDataIntegrity ==
  /\ saved["record"] # null
  /\ \/ cycles = integrityCycles
     \/ loaded["record"] # null /\ loaded["record"] # saved["record"]
  /\ storage' = [storage EXCEPT !["record"] = null]
  /\ saved' = [saved EXCEPT !["record"] = null]
  /\ loaded' = [loaded EXCEPT !["record"] = null]
  /\ cycles' = 0
  /\ UNCHANGED <<engineVars, milestoneVars, scalerVars, poolVars, restVars>>

----------------------------------------------------------------------------
(* FrameRateMonitor                                                        *)
(*                                                                         *)
(* The monitor is constructed at time 0.  A frame's fps sample,            *)
(* 1000 / deltaTime, the sum of the samples and their mean are doubles.    *)

maxHistoryLength == 60

\* The time between two update calls, in milliseconds; 0 is a second call
\* within the same millisecond.
FrameSteps == {0, 17, 40}
\* Most update calls in a behaviour of MonitorSpec, and most of them made
\* with no time passed.
MaxFrames == 62
MaxIdleFrames == 2

\* this.fpsHistory.shift() on a history that has grown too long.
ShiftedMutant(h) == SubSeq(h, 1, Len(h) - 1)
Shifted(h) == Tail(h)

\* The history after push(currentFps) and the shift that may follow.
Pushed(h, currentFps) ==
  IF Len(h) + 1 > maxHistoryLength THEN Shifted(Append(h, currentFps))
  ELSE Append(h, currentFps)

RECURSIVE SumFrom(_, _, _, _)
\* reduce((a, b) => a + b, 0) over elements lo..hi, acc the sum before
\* them: the elements are added one by one, from the left.  (The range is
\* halved only to keep the evaluation shallow.)
SumFrom(h, lo, hi, acc) ==
  IF lo > hi THEN acc
  ELSE IF lo = hi THEN FAdd(acc, h[lo])
  ELSE The({SumFrom(h, ((lo + hi) \div 2) + 1, hi, s) :
              s \in {SumFrom(h, lo, (lo + hi) \div 2, acc)}})

\* getAverageFps() on the history h.
AverageFps(h) ==
  IF Len(h) = 0 THEN FromInt(60)
  ELSE FDivInt(SumFrom(h, 1, Len(h), Zero), Len(h))

\* Math.round(a) for a >= 0: halves go up.
MathRound(a) == a[NL] + Bit(a, 16 * (NL - 1) - 1)

\* getCurrentFps()
CurrentFps == MathRound(fps)

\* update(), called d milliseconds after the call before it (after the
\* construction, for the first).
MonitorUpdate(d) ==
  /\ now' = now + d
  /\ LET currentTime == now + d
         deltaTime == currentTime - lastTime
     IN /\ IF deltaTime > 0
             THEN \E h \in {Pushed(fpsHistory,
                                   FDivInt(FromInt(1000), deltaTime))} :
                    /\ fpsHistory' = h
                    /\ fps' = AverageFps(h)
             ELSE UNCHANGED <<fpsHistory, fps>>
        /\ lastTime' = currentTime
  /\ frameCount' = frameCount + 1
  /\ UNCHANGED <<performanceLevel, lastAdjustment, callLog, changeTimes,
                 scaled, scenario, testResults>>
  /\ UNCHANGED <<engineVars, milestoneVars, poolVars, storageVars,
                 managerVars, runnerVars>>

----------------------------------------------------------------------------
(* Progress Manager                                                        *)
(*                                                                         *)
(* save(state) and load() are not among the source files; they are taken   *)
(* from the specification (Progress Manager contract).  The store is the   *)
(* "record" key of localStorage.  The tests make localStorage fail by      *)
(* replacing setItem with a function that throws                           *)
(* (testStorageErrorHandling, testErrorRecovery).                          *)

\* A stored text that is not valid JSON: a record cut off after its brace.
corruptText == [cut |-> "{"]

\* Whether JSON.parse accepts a stored text: it is a whole record.
ValidJson(text) == DOMAIN text = {"waterLevel", "milestones"}

\* Inputs of ManagerSpec: deltaTime, most update calls, most droplets.
ManagerDeltaTimes == {8}
MaxManagerTicks == 2
MaxManagerDroplets == 2

\* What load() finds: storage that throws, no key, a text JSON.parse
\* rejects, or a record.
StoreFound(store, fails) ==
  IF fails THEN "unavailable"
  ELSE IF store["record"] = null THEN "missing"
  ELSE IF ~ValidJson(store["record"]) THEN "corrupt"
  ELSE "record"

\* Whether an exception thrown inside save, inside load, leaves the call.
SaveRaisesMutant(threw) == threw
SaveRaises(threw) == FALSE
LoadRaisesMutant(threw) == threw
LoadRaises(threw) == FALSE

\* The state save() is given: the level and the flags in memory.
MemoryState == [waterLevel |-> waterLevel, milestones |-> milestones]

\* save(state)
Save ==
  /\ storage' = IF storageFails THEN storage
                ELSE [storage EXCEPT !["record"] = Stringify(MemoryState)]
  /\ outcome' = [op |-> "save", found |-> "none", result |-> null,
                 raised |-> SaveRaises(storageFails),
                 warning |-> storageFails, tick |-> ticks]
  /\ UNCHANGED <<saved, loaded, cycles, storageFails>>
  /\ UNCHANGED <<engineVars, milestoneVars, scalerVars, poolVars,
                 monitorVars, runnerVars>>

\* load()
Load ==
  /\ \E f \in {StoreFound(storage, storageFails)} :
       outcome' = [op |-> "load", found |-> f,
                   result |-> IF f = "record" THEN Parse(storage["record"])
                              ELSE null,
                   raised |-> LoadRaises(f \in {"unavailable", "corrupt"}),
                   warning |-> FALSE, tick |-> ticks]
  /\ UNCHANGED <<storageVars, storageFails>>
  /\ UNCHANGED <<engineVars, milestoneVars, scalerVars, poolVars,
                 monitorVars, runnerVars>>

\* localStorage starts to throw, and is restored.
BreakStorage ==
  /\ storageFails' = ~storageFails
  /\ UNCHANGED <<outcome, storageVars>>
  /\ UNCHANGED <<engineVars, milestoneVars, scalerVars, poolVars,
                 monitorVars, runnerVars>>

\* The stored text is damaged, or removed, from outside the program.
DamageStore ==
  /\ ~storageFails
  /\ \E text \in {corruptText, null} :
       storage' = [storage EXCEPT !["record"] = text]
  /\ UNCHANGED <<saved, loaded, cycles, managerVars>>
  /\ UNCHANGED <<engineVars, milestoneVars, scalerVars, poolVars,
                 monitorVars, runnerVars>>

----------------------------------------------------------------------------
(* ComprehensiveTestRunner (test-runner.js)                                *)

\* The categories of this.results (constructor).
Categories == {"physics", "storage", "milestones", "performance",
               "accessibility", "responsive", "integration"}

\* The suites of the tester classes, in the order initialize looks for them.
ExternalSuites == <<"performance", "accessibility", "responsive">>

\* The suites of initializeBuiltInTests, in the order it registers them.
BuiltInSuites == <<"physics", "storage", "milestones", "integration">>

\* The names of the tests of a built-in suite, in order.
TestNames(suiteName) ==
  CASE suiteName = "physics" ->
         <<"Droplet Creation and Physics", "Collision Detection Accuracy",
           "Water Level Accumulation", "Splash Effect Generation",
           "Physics Performance Under Load">>
    [] suiteName = "storage" ->
         <<"localStorage Availability", "Progress Save and Load",
           "Data Integrity", "Storage Error Handling",
           "Storage Performance">>
    [] suiteName = "milestones" ->
         <<"Milestone Threshold Detection", "Milestone State Persistence",
           "Visual Effect Triggering", "Milestone Reset Functionality">>
    [] suiteName = "integration" ->
         <<"End-to-End User Flow", "Component Integration",
           "Error Recovery", "Browser Compatibility">>
    [] OTHER -> <<>>

\* The method of a suite object that runs all its tests: the built-in
\* suites are objects with runAllTests, the tester classes name theirs
\* after themselves.
RunMethod(suiteName) ==
  CASE suiteName = "performance" -> "runAllPerformanceTests"
    [] suiteName = "accessibility" -> "runAllAccessibilityTests"
    [] suiteName = "responsive" -> "runAllResponsiveTests"
    [] OTHER -> "runAllTests"

\* What the tests of a suite may return: all pass, or the first one fails,
\* warns, or throws (runTestSuite records a throw as status 'error').
Statuses == {"pass", "fail", "warning", "error"}
SuiteOutcomes(suiteName) ==
  { [i \in 1..Len(TestNames(suiteName)) |-> IF i = 1 THEN s ELSE "pass"] :
      s \in Statuses }

\* runTestSuite(suiteName, tests)
RunTestSuite(suiteName, statuses) ==
  [i \in 1..Len(statuses) |->
     [name |-> TestNames(suiteName)[i], status |-> statuses[i]]]

\* The record runAllTests stores when a suite's runAllTests throws.
SuiteError(suiteName) ==
  [name |-> suiteName \o " Suite Error", status |-> "error"]

Count(suiteResults, status) ==
  Cardinality({i \in DOMAIN suiteResults : suiteResults[i].status = status})

\* updateOverallResults(suiteResults)
UpdateOverallResults(overall, suiteResults) ==
  [passed   |-> overall.passed + Count(suiteResults, "pass"),
   failed   |-> overall.failed + Count(suiteResults, "fail"),
   warnings |-> overall.warnings + Count(suiteResults, "warning"),
   errors   |-> overall.errors + Count(suiteResults, "error"),
   total    |-> overall.total + Len(suiteResults)]

\* initialize(), on a page that defines the tester classes of `classes`
Initialize(classes) ==
  /\ runnerPc = "new"
  /\ definedClasses' = classes
  /\ testSuites' = SelectSeq(ExternalSuites, LAMBDA s : s \in classes)
                     \o BuiltInSuites
  /\ runnerPc' = "ready"
  /\ UNCHANGED <<runnerResults, overallResults, suiteIndex>>
  /\ UNCHANGED <<engineVars, milestoneVars, scalerVars, poolVars,
                 storageVars, monitorVars, managerVars>>

\* runAllTests(), up to its loop
StartAllTests ==
  /\ runnerPc = "ready"
  /\ runnerPc' = "running"
  /\ suiteIndex' = 1
  /\ UNCHANGED <<definedClasses, testSuites, runnerResults, overallResults>>
  /\ UNCHANGED <<engineVars, milestoneVars, scalerVars, poolVars,
                 storageVars, monitorVars, managerVars>>

\* runAllTests(), one pass of its loop: the suite's runAllTests is called;
\* calling a method the suite does not have throws, and the catch stores
\* the suite error.
RunSuite(statuses) ==
  /\ runnerPc = "running"
  /\ suiteIndex <= Len(testSuites)
  /\ \E suiteName \in {testSuites[suiteIndex]} :
       IF RunMethod(suiteName) = "runAllTests"
         THEN /\ statuses \in SuiteOutcomes(suiteName)
              /\ \E rs \in {RunTestSuite(suiteName, statuses)} :
                   /\ runnerResults' = [runnerResults EXCEPT ![suiteName] = rs]
                   /\ overallResults' = UpdateOverallResults(overallResults, rs)
         ELSE /\ statuses = <<>>
              /\ runnerResults' = [runnerResults EXCEPT
                                     ![suiteName] = <<SuiteError(suiteName)>>]
              /\ overallResults' = [overallResults EXCEPT
                                      !.errors = @ + 1, !.total = @ + 1]
  /\ suiteIndex' = suiteIndex + 1
  /\ UNCHANGED <<definedClasses, testSuites, runnerPc>>
  /\ UNCHANGED <<engineVars, milestoneVars, scalerVars, poolVars,
                 storageVars, monitorVars, managerVars>>

\* runAllTests(), after its loop
EndAllTests ==
  /\ runnerPc = "running"
  /\ suiteIndex > Len(testSuites)
  /\ runnerPc' = "done"
  /\ UNCHANGED <<definedClasses, testSuites, runnerResults, overallResults,
                 suiteIndex>>
  /\ UNCHANGED <<engineVars, milestoneVars, scalerVars, poolVars,
                 storageVars, monitorVars, managerVars>>

----------------------------------------------------------------------------
(* Specifications                                                          *)

\* The state after construction.
Init ==
  /\ waterLevel = Zero
  /\ droplets = <<>>
  /\ splashEffects = <<>>
  /\ lastResult = "none"
  /\ ticks = 0
  /\ collisions = 0
  /\ splashCount = 0
  /\ aged = FALSE
  /\ maxHits = 0
  /\ milestones = NoMilestones
  /\ results = <<>>
  /\ now = 0
  /\ performanceLevel = FromInt(1)
  /\ lastAdjustment = 0
  /\ callLog = <<>>
  /\ changeTimes = <<>>
  /\ scaled = <<>>
  /\ scenario = 0
  /\ testResults = <<>>
  /\ pool = [i \in 1..initialSize |-> i]
  /\ active = <<>>
  /\ created = initialSize
  /\ poolOp = [op |-> "none", obj |-> 0, wasActive |-> FALSE,
               reused |-> FALSE]
  /\ storage = [k \in {"progress", "record"} |-> <<>>]
  /\ saved = [k \in {"progress", "record"} |-> <<>>]
  /\ loaded = [k \in {"progress", "record"} |-> <<>>]
  /\ cycles = 0
  /\ fpsHistory = <<>>
  /\ fps = FromInt(60)
  /\ lastTime = 0
  /\ frameCount = 0
  /\ storageFails = FALSE
  /\ outcome = [op |-> "none", found |-> "none", result |-> <<>>,
                raised |-> FALSE, warning |-> FALSE, tick |-> 0]
  /\ definedClasses = {}
  /\ testSuites = <<>>
  /\ runnerResults = [c \in Categories |-> <<>>]
  /\ overallResults = [passed |-> 0, failed |-> 0, warnings |-> 0,
                       errors |-> 0, total |-> 0]
  /\ runnerPc = "new"
  /\ suiteIndex = 0

\* The engine under any calls, MaxTicks updates at most.
Next ==
  \/ \E x \in SpawnXs, y \in SpawnYs : AddDroplet(x, y)
  \/ \E dt \in DeltaTimes : ticks < MaxTicks /\ Update(dt)

Spec == Init /\ [][Next]_vars

\* The engine filled to the brim: droplets spawned and long frames, each of
\* which lands every droplet in flight.
FillNext ==
  \/ \E x \in SpawnXs, y \in SpawnYs : AddDroplet(x, y)
  \/ \E dt \in FillDeltaTimes : ticks < MaxFillTicks /\ Update(dt)

FillSpec == Init /\ [][FillNext]_vars

\* The engine drained: droplets are spawned before the first update, near
\* the surface and far above the canvas, each at the height of the one
\* before it or above, and none afterwards.
SpawnedUpwards(y) ==
  IF droplets = <<>> THEN TRUE ELSE y <= droplets[Len(droplets)].y

DrainUpdate == \E dt \in DrainDeltaTimes : ticks < MaxDrainTicks /\ Update(dt)

DrainNext ==
  \/ \E x \in SpawnXs, y \in DrainSpawnYs :
       ticks = 0 /\ SpawnedUpwards(y) /\ AddDroplet(x, y)
  \/ DrainUpdate

DrainSpec == Init /\ [][DrainNext]_vars

\* The frame loop keeps calling update.
DrainLive == DrainSpec /\ WF_vars(DrainUpdate)

\* testEndToEndFlow.
FlowNext == FlowStep

FlowSpec == Init /\ [][FlowNext]_vars

\* The milestone record under any checks and resets.
MilestoneNext ==
  \/ \E i \in DOMAIN testLevels : CheckAtLevel(testLevels[i])
  \/ ResetMilestones

MilestoneSpec == Init /\ [][MilestoneNext]_vars

\* The scaler called at any times up to MaxTime, inside and outside the
\* cooldown.
ScalerNext ==
  \/ \E fps10 \in MonitorFps : AdjustPerformance(fps10)
  \/ \E d \in ClockSteps : now + d <= MaxTime /\ Advance(d)

ScalerSpec == Init /\ [][ScalerNext]_vars

\* The scaler taken down and up the ladder: the clock moves a cooldown at a
\* time, up to MaxLadderTime.
LadderNext ==
  \/ \E fps10 \in MonitorFps : AdjustPerformance(fps10)
  \/ \E baseValue \in BaseValues : GetScaledValue(baseValue)
  \/ \E d \in LadderClockSteps : now + d <= MaxLadderTime /\ Advance(d)

LadderSpec == Init /\ [][LadderNext]_vars

\* The scaler under load and after it: adjustPerformance is called every
\* cooldown; up to MaxDegradeTime the monitor shows any fps, from then on
\* only fps above 50.
RecoveryNext ==
  \E d \in RecoveryClockSteps :
    /\ now + d <= MaxRecoveryTime
    /\ \E fps10 \in (IF now + d <= MaxDegradeTime THEN MonitorFps
                                                 ELSE RecoveryFps) :
         Frame(d, fps10)

RecoverySpec == Init /\ [][RecoveryNext]_vars

\* The loop keeps running.
RecoveryLive == RecoverySpec /\ WF_vars(RecoveryNext)

\* testPerformanceScaling, started at any time up to MaxTestStart.
ScalingTestNext ==
  \/ \E d \in TestClockSteps :
       scenario = 0 /\ now + d <= MaxTestStart /\ Advance(d)
  \/ RunScenario

ScalingTestSpec == Init /\ [][ScalingTestNext]_vars

\* The pool under any acquire and release calls, of any object.
PoolNext ==
  \/ Acquire
  \/ \E obj \in 0..created : Release(obj)

PoolSpec == Init /\ [][PoolNext]_vars

\* The engine with the Progress Manager: droplets fall and raise the level,
\* the state is saved and loaded at any time, the storage fails and comes
\* back, the stored text is damaged.  An exception that leaves save or load
\* ends the frame loop: update is not called again.
ManagerNext ==
  \/ \E x \in SpawnXs, y \in SpawnYs :
       Len(droplets) < MaxManagerDroplets /\ AddDroplet(x, y)
  \/ \E dt \in ManagerDeltaTimes :
       ticks < MaxManagerTicks /\ ~outcome.raised /\ Update(dt)
  \/ Save
  \/ Load
  \/ BreakStorage
  \/ DamageStore

ManagerSpec == Init /\ [][ManagerNext]_vars

\* One run of the test runner, on any page.
RunnerNext ==
  \/ \E classes \in SUBSET Range(ExternalSuites) : Initialize(classes)
  \/ StartAllTests
  \/ \E statuses \in {<<>>} \cup UNION {SuiteOutcomes(s) : s \in Categories} :
       RunSuite(statuses)
  \/ EndAllTests

RunnerSpec == Init /\ [][RunnerNext]_vars

\* The monitor over MaxFrames frames that get longer, never shorter: at
\* most MaxIdleFrames calls before any time has passed, then frames of
\* 17 ms, then frames of 40 ms.
Slowing(d) ==
  IF fpsHistory = <<>> THEN d > 0 \/ frameCount < MaxIdleFrames
  ELSE d > 0 /\ LLeq(FDivInt(FromInt(1000), d), fpsHistory[Len(fpsHistory)])

MonitorNext ==
  \E d \in FrameSteps :
    frameCount < MaxFrames /\ Slowing(d) /\ MonitorUpdate(d)

MonitorSpec == Init /\ [][MonitorNext]_vars

\* The persistence tests run on any level the engine reaches by collisions.
PersistNext ==
  \/ StorageIdle /\ FlowStep
  \/ \E level \in ProgressLevels : SaveProgress(level)
  \/ LoadProgress
  \/ RemoveProgress
  \/ \E level \in RecordLevels, flags \in MilestoneFlags :
       StartDataIntegrity(level, flags)
  \/ DataIntegrityCycle
  \/ EndDataIntegrity

PersistSpec == Init /\ [][PersistNext]_vars

----------------------------------------------------------------------------
(* Properties of the engine                                                *)

\* Any addDroplet call of Next.
AnyAddDroplet == \E x \in SpawnXs, y \in SpawnYs : AddDroplet(x, y)

\* C1: the droplet list never holds more than maxDroplets droplets, and an
\* addDroplet call made while it holds maxDroplets returns false and leaves
\* the list as it was.
C1_DropletCap ==
  /\ [](Len(droplets) <= maxDroplets)
  /\ [][(AnyAddDroplet /\ Len(droplets) >= maxDroplets)
          => (lastResult' = "false" /\ droplets' = droplets)]_vars

\* C1 case: a call was refused with the list at the cap.
C1_Witness == Len(droplets) = maxDroplets /\ lastResult = "false"

\* C2: the water level stays within [0, 100] and no step lowers it.
C2_LevelBoundedMonotone ==
  /\ [](LLeq(Zero, waterLevel) /\ LLeq(waterLevel, FromInt(100)))
  /\ [][LLeq(waterLevel, waterLevel')]_vars

\* C2 case: collisions went on after the level reached 100.
C2_Witness == waterLevel = FromInt(100) /\ collisions > requiredDroplets + 1

\* The droplets of the list not yet splashed.
Unsplashed == {i \in DOMAIN droplets : ~droplets[i].splashed}

\* C3: a droplet raises the water level at most once: no droplet is ever
\* counted twice, the splashed flag is set exactly by its one collision, and
\* a step has no more collisions (and splashes) than droplets that had not
\* splashed before it.
C3_OneCollisionPerDroplet ==
  /\ [](/\ maxHits <= 1
        /\ \A i \in DOMAIN droplets :
             droplets[i].hits = IF droplets[i].splashed THEN 1 ELSE 0)
  /\ [][/\ collisions' - collisions <= Cardinality(Unsplashed)
        /\ splashCount' - splashCount <= Cardinality(Unsplashed)
        /\ Unsplashed = {} => waterLevel' = waterLevel]_vars

\* C3 case: a droplet that collided in the first update went through a
\* second update, still past the surface, and aged there.
C3_Witness ==
  \E i \in DOMAIN droplets :
    /\ droplets[i].splashed
    /\ droplets[i].hitTick = 1
    /\ ticks = 2
    /\ droplets[i].life < 1000 - 8

\* n * 0.8 capped at 100, each operation rounded as a double.
CappedProduct(n) == FMin(FromInt(100), FMulInt(Literal(8, 10), n))

\* C4 as stated: after n collisions from level 0 the level equals
\* min(100, n * 0.8).
C4_ExactProduct == waterLevel = CappedProduct(collisions)

\* C4 amended: after n collisions from level 0 the level is within 0.01 of
\* min(100, n * 0.8).
C4_WithinTolerance ==
  LLess(LDist(waterLevel, CappedProduct(collisions)), Literal(1, 100))

\* C4 case: 125 collisions, where the sum of increments is short of the
\* product.
C4_Witness ==
  collisions = requiredDroplets /\ waterLevel # CappedProduct(collisions)

\* C5 as stated: 125 collisions from level 0 bring the level to exactly 100
\* with all three milestones achieved, and later collisions leave it there.
C5_FullAfterRequired ==
  collisions >= requiredDroplets
    => /\ waterLevel = FromInt(100)
       /\ \A k \in DOMAIN milestones : milestones[k]

----------------------------------------------------------------------------
(* Properties of the milestone record                                      *)

\* The checks of the log that reported milestone k.
ReportsOf(k) == {i \in DOMAIN results : k \in Range(results[i].achieved)}

PendingUpTo(level) ==
  (IF ~milestones.fish /\ 30 <= level THEN <<"fish">> ELSE <<>>)
    \o (IF ~milestones.waves /\ 70 <= level THEN <<"waves">> ELSE <<>>)
    \o (IF ~milestones.completion /\ 100 <= level
          THEN <<"completion">> ELSE <<>>)

\* C7: a check reports every milestone that was pending before it and has
\* its threshold at or below the level, together and in ascending threshold
\* order: fish, waves, completion from a fresh record checked at 100.
C7_AllCrossedAscending ==
  [][Len(results') = Len(results) + 1
       => LET r == results'[Len(results')]
          IN /\ r.achieved = PendingUpTo(r.level)
             /\ (milestones = NoMilestones /\ r.level = 100)
                  => r.achieved = <<"fish", "waves", "completion">>]_vars

\* C7 case: a fresh record checked at 100 reported all three.
C7_Witness ==
  /\ Len(results) >= 1
  /\ results[1] = [level |-> 100,
                   achieved |-> <<"fish", "waves", "completion">>]

\* The log so far is the first checks of testMilestoneThresholds.
FollowsTestLevels ==
  /\ Len(results) <= Len(testLevels)
  /\ \A i \in DOMAIN results : results[i].level = testLevels[i]

\* The test's own comparison of a report with its expectation.
correct(achieved, expected) ==
  /\ Len(achieved) = Len(expected)
  /\ \A i \in DOMAIN achieved : achieved[i] \in Range(expected)

\* C8 as stated: checked in turn at 25, 30, 65, 70, 95 and 100, the checks
\* report none, fish, fish, fish+waves, fish+waves, fish+waves+completion.
C8_ReportsAllAtOrBelow ==
  FollowsTestLevels
    => \A i \in DOMAIN results :
         correct(results[i].achieved, expectedAchievements[i])

\* C9: no step takes an achieved milestone back to pending except the
\* reset, and the reset leaves every milestone pending.
C9_OneWay ==
  [][/\ (\E k \in DOMAIN milestones : milestones[k] /\ ~milestones'[k])
          => ResetMilestones
     /\ ResetMilestones => \A k \in DOMAIN milestones : ~milestones'[k]]_vars

\* C9 case: all achieved at 100, then checked at 25, below every threshold,
\* and still all achieved.
C9_Witness ==
  /\ Len(results) >= 2
  /\ results[1].level = 100 /\ results[2].level = 25
  /\ \A k \in DOMAIN milestones : milestones[k]

----------------------------------------------------------------------------
(* Properties of the splash list                                           *)

\* C10: the splash list never holds more than maxSplashEffects splashes, and
\* while no splash has expired it holds the latest created ones, oldest
\* first: after cap + 1 creations, splashes 2 .. cap + 1.
C10_BoundedFifo ==
  /\ Len(splashEffects) <= maxSplashEffects
  /\ ~aged =>
       /\ Len(splashEffects) =
            IF splashCount < maxSplashEffects THEN splashCount
                                              ELSE maxSplashEffects
       /\ \A i \in DOMAIN splashEffects :
            splashEffects[i].id = splashCount - Len(splashEffects) + i

\* C10 case: cap + 1 splashes created, none expired, the first one evicted.
C10_Witness ==
  /\ ~aged
  /\ splashCount = maxSplashEffects + 1
  /\ Len(splashEffects) = maxSplashEffects
  /\ splashEffects[1].id = 2

----------------------------------------------------------------------------
(* Properties of the performance scaler                                    *)

\* The latest adjustPerformance call.
LastCall == callLog[Len(callLog)]

\* C11 as stated: two calls 500 ms apart return the same level, whenever
\* the first one is made.
C11_SameLevel500Apart ==
  (Len(callLog) = 2 /\ callLog[2].time - callLog[1].time = 500)
    => callLog[2].returned = callLog[1].returned

\* C11 amended: a call made 500 ms after a call that got past the cooldown
\* check returns the level that call returned, whatever the fps.
C11_SameLevelAfterEvaluation ==
  (/\ callLog # <<>>
   /\ LastCall.priorEval # <<>>
   /\ LastCall.time - LastCall.priorEval[1].time = 500)
    => LastCall.returned = LastCall.priorEval[1].returned

\* C11 case: an evaluation lowered the level, and a call 500 ms later with
\* fps 15 returned that same level.
C11_Witness ==
  /\ callLog # <<>>
  /\ LastCall.priorEval # <<>>
  /\ LastCall.time - LastCall.priorEval[1].time = 500
  /\ LastCall.fps = 15
  /\ LLess(LastCall.returned, FromInt(1))

\* C12: two calls that each change performanceLevel are at least
\* adjustmentCooldown apart.
C12_ChangesACooldownApart ==
  Len(changeTimes) = 2
    => changeTimes[2] - changeTimes[1] >= adjustmentCooldown

\* C12 case: the level changed twice, the second time right at the end of
\* the cooldown.
C12_Witness ==
  /\ Len(changeTimes) = 2
  /\ changeTimes[2] - changeTimes[1] = adjustmentCooldown

\* The latest call was made with the cooldown elapsed and fps 15.
CriticalCall ==
  /\ callLog # <<>>
  /\ LastCall.sinceAdjust >= adjustmentCooldown
  /\ LastCall.fps = 15

\* C13 as stated: a call after the cooldown with fps 15 returns a level
\* strictly below the level before it.
C13_StrictlyLower ==
  CriticalCall => LLess(LastCall.returned, LastCall.before)

\* C13 amended: a call after the cooldown with fps 15 returns a level
\* strictly below the level before it, unless that level is already
\* minPerformanceLevel, which it then returns.
C13_LowerOrAtFloor ==
  CriticalCall
    => \/ LLess(LastCall.returned, LastCall.before)
       \/ /\ LastCall.before = minPerformanceLevel
          /\ LastCall.returned = minPerformanceLevel

\* C13 case: such a call took the level down to the floor.
C13_Witness ==
  /\ CriticalCall
  /\ LLess(LastCall.returned, LastCall.before)
  /\ LastCall.returned = minPerformanceLevel

\* C14: performanceLevel lies in [minPerformanceLevel, 1].
C14_LevelInRange ==
  /\ LLeq(minPerformanceLevel, performanceLevel)
  /\ LLeq(performanceLevel, FromInt(1))

\* C14 case: an evaluation whose product fell below the floor.
C14_Witness ==
  /\ callLog # <<>>
  /\ LastCall.evaluated
  /\ LastCall.fps = 15
  /\ LLess(FMul(LastCall.before, Literal(6, 10)), Literal(3, 10))
  /\ performanceLevel = Literal(3, 10)

\* C15: getScaledValue returns at least 1, at most its argument when that is
\* 1 or more, and for 10 at least floor(10 * 0.3) = 3.
C15_ScaledAtLeastOne ==
  scaled # <<>>
    => /\ scaled[1].value >= 1
       /\ scaled[1].baseValue >= 1 => scaled[1].value <= scaled[1].baseValue
       /\ scaled[1].baseValue = 10 => scaled[1].value >= 3

\* C15 case: getScaledValue(1) with the level at the floor.
C15_Witness ==
  /\ scaled # <<>>
  /\ scaled[1].level = Literal(3, 10)
  /\ scaled[1].baseValue = 1
  /\ scaled[1].value = 1

\* C16 as stated: of the four calls of testPerformanceScaling at least one
\* changes the level.
C16_SomeScenarioScales == scenario = Len(scenarios) => hasScaling

----------------------------------------------------------------------------
(* Properties of the object pool                                           *)

\* No element of the sequence s occurs in it twice.
NoDuplicates(s) == \A i, j \in DOMAIN s : s[i] = s[j] => i = j

\* Any release call of PoolNext, of an object that is not active.
ReleaseOfInactive ==
  \E obj \in 0..created : obj \notin Range(active) /\ Release(obj)

\* C17: no object is in the active list twice, none is both idle and
\* active, and acquire hands out an object that was not active.
C17_OneOwner ==
  /\ [](/\ NoDuplicates(active)
        /\ Range(pool) \cap Range(active) = {})
  /\ [][Acquire => poolOp'.obj \notin Range(active)]_vars

\* C17 case: an object created by acquire was released and handed out
\* again while another object is active.
C17_Witness ==
  /\ poolOp.op = "acquire"
  /\ poolOp.reused
  /\ poolOp.obj > initialSize
  /\ Len(active) >= 2

\* C18: a release of an object that is not active leaves the idle pool and
\* the active list as they were, and no object is in the idle pool twice.
C18_InactiveReleaseNoOp ==
  /\ [](NoDuplicates(pool))
  /\ [][ReleaseOfInactive => (pool' = pool /\ active' = active)]_vars

\* C18 case: an object that acquire created, idle again, was released once
\* more.
C18_Witness ==
  /\ poolOp.op = "release"
  /\ ~poolOp.wasActive
  /\ poolOp.obj > initialSize
  /\ poolOp.obj \in Range(pool)

----------------------------------------------------------------------------
(* Persistence claims                                                      *)

\* C19: a record {waterLevel, milestones} saved as JSON and loaded again is
\* equal to the record saved, whatever the level the engine reached and
\* whatever the flags, after any number of save/load cycles.
C19_RecordRoundTrip ==
  loaded["record"] # null => loaded["record"] = saved["record"]

\* A record with a fractional level reached by collisions and mixed flags,
\* after the last of the save/load cycles.
C19_Witness ==
  /\ cycles = integrityCycles
  /\ loaded["record"] # null
  /\ loaded["record"] = saved["record"]
  /\ collisions > 0
  /\ saved["record"].waterLevel = waterLevel
  /\ Frac(waterLevel) # Zero
  /\ saved["record"].milestones["fish"]
  /\ ~saved["record"].milestones["waves"]

\* C20: the level saved under the progress key as its decimal string and
\* loaded with parseInt is the level that was saved, for every level the
\* engine reaches by collisions.
C20_ProgressRoundTrip ==
  loaded["progress"] # null => loaded["progress"] = saved["progress"]

----------------------------------------------------------------------------
(* Engine claims: splashes, culling, draining                              *)

\* C26: every active splash has radius <= maxRadius, in every reachable
\* state.
C26_RadiusWithinMax ==
  \A i \in DOMAIN splashEffects :
    splashEffects[i].radius <= splashEffects[i].maxRadius

\* C27: after every update call no droplet still in the active list has
\* life <= 0 or y > 450.
C27_NoDeadDroplet ==
  ticks > 0 =>
    \A i \in DOMAIN droplets : droplets[i].life > 0 /\ droplets[i].y <= 900

\* Droplet e is droplet d after a step no longer than maxFrameStep: it has
\* fallen and aged no more than update(maxFrameStep) would make it.
WithinFrameStep(d, e) ==
  /\ e.y - d.y <= Moved(d, maxFrameStep).y - d.y
  /\ d.life - e.life <= maxFrameStep

\* C23: one update call, whatever its deltaTime, moves and ages each droplet
\* and ages each splash by no more than an update with the maximum frame
\* step would, and leaves no splash with a negative radius.
C23_StepClamped ==
  [][ticks' = ticks + 1 =>
       /\ \A i \in DOMAIN droplets' :
            \E j \in DOMAIN droplets :
              WithinFrameStep(droplets[j], droplets'[i])
       /\ \A i \in DOMAIN splashEffects' :
            /\ splashEffects'[i].radius >= 0
            /\ \A j \in DOMAIN splashEffects :
                 splashEffects[j].id = splashEffects'[i].id =>
                   splashEffects[j].life - splashEffects'[i].life
                     <= maxFrameStep]_vars

\* C28: with no new spawns and update called again and again with a
\* positive deltaTime, the active-droplet list becomes empty.
C28_Drains == (droplets # <<>>) ~> (droplets = <<>>)

\* The cap was exhausted by droplets spawned far above the canvas, none of
\* which reached the surface, and the list is empty again.
C28_Witness ==
  /\ droplets = <<>>
  /\ ticks > 0
  /\ lastResult = "false"
  /\ collisions = 0

----------------------------------------------------------------------------
(* PerformanceScaler claims: the dead band, recovery                       *)

\* Call c got past the cooldown check with fps in the dead band, 30 to 50,
\* and left the level as it was.
DeadBandEval(c) ==
  c.evaluated /\ c.fps >= 30 /\ c.fps <= 50 /\ c.returned = c.before

\* C30: a call that is not skipped by the cooldown and sees fps in the dead
\* band records its time as lastAdjustment though the level does not
\* change, and a call made less than adjustmentCooldown after it is a
\* no-op whatever its fps.
C30_DeadBandStamps ==
  /\ (callLog # <<>> /\ DeadBandEval(LastCall))
       => lastAdjustment = LastCall.time
  /\ (/\ Len(callLog) = 2
      /\ DeadBandEval(callLog[1])
      /\ callLog[2].time - callLog[1].time < adjustmentCooldown)
       => ~callLog[2].evaluated /\ callLog[2].returned = callLog[2].before

\* A dead-band evaluation below full level, then a call with fps 15 made
\* 500 ms later, which did not evaluate.
C30_Witness ==
  /\ Len(callLog) = 2
  /\ DeadBandEval(callLog[1])
  /\ LLess(callLog[1].before, FromInt(1))
  /\ callLog[2].time - callLog[1].time = 500
  /\ callLog[2].fps = 15
  /\ ~callLog[2].evaluated

\* C29: once the monitor shows fps above 50 at every evaluation and
\* adjustPerformance is called a cooldown apart, performanceLevel reaches 1
\* and stays there.
C29_Recovers == <>[](performanceLevel = FromInt(1))

\* The level was at the floor when the load went away and has been taken
\* back to 1 by the last of thirteen recovery steps.
C29_Witness ==
  /\ performanceLevel = FromInt(1)
  /\ callLog # <<>>
  /\ LastCall.evaluated
  /\ LastCall.fps > 50
  /\ LLess(LastCall.before, FromInt(1))
  /\ LastCall.time - MaxDegradeTime > 12 * adjustmentCooldown

----------------------------------------------------------------------------
(* FrameRateMonitor claims                                                 *)

RECURSIVE ExactSumFrom(_, _, _)
\* The sum of the samples lo..hi of h, exact.
ExactSumFrom(h, lo, hi) ==
  IF lo > hi THEN Zero
  ELSE IF lo = hi THEN h[lo]
  ELSE The({LAdd(x[1], x[2]) :
              x \in {<<ExactSumFrom(h, lo, (lo + hi) \div 2),
                       ExactSumFrom(h, ((lo + hi) \div 2) + 1, hi)>>}})

\* The mean of the samples of h rounded to the nearest integer, halves up,
\* in exact arithmetic: floor((2 * sum + n) / (2 * n)).
RoundedMean(h) ==
  LDivSmall(LAdd(LMulSmall(ExactSumFrom(h, 1, Len(h)), 2), FromInt(Len(h))),
            2 * Len(h)).quot[NL]

\* C24: getCurrentFps returns 60 until the first sample is recorded and
\* afterwards the mean of the samples in the history, as getAverageFps
\* computes it, rounded, which is the rounded exact mean or, where the mean
\* is a rounding error away from a half, the integer next to it; the
\* history holds at most maxHistoryLength samples and drops the oldest
\* first.
C24_RoundedRollingMean ==
  /\ [](/\ Len(fpsHistory) <= maxHistoryLength
        /\ fps = AverageFps(fpsHistory)
        /\ fpsHistory = <<>> => CurrentFps = 60
        /\ fpsHistory # <<>> =>
             /\ CurrentFps >= RoundedMean(fpsHistory) - 1
             /\ CurrentFps <= RoundedMean(fpsHistory) + 1)
  /\ [][(Len(fpsHistory) = maxHistoryLength /\ lastTime' > lastTime)
          => /\ Len(fpsHistory') = maxHistoryLength
             /\ SubSeq(fpsHistory', 1, maxHistoryLength - 1)
                  = Tail(fpsHistory)]_vars

\* The history is full, has dropped samples of 17 ms frames and holds
\* samples of both kinds of frame; the rounded mean is neither sample.
C24_Witness ==
  /\ Len(fpsHistory) = maxHistoryLength
  /\ frameCount > maxHistoryLength + 1
  /\ fpsHistory[1] # fpsHistory[maxHistoryLength]
  /\ CurrentFps = RoundedMean(fpsHistory)
  /\ CurrentFps # MathRound(fpsHistory[1])
  /\ CurrentFps # MathRound(fpsHistory[maxHistoryLength])

----------------------------------------------------------------------------
(* Progress Manager claims                                                 *)

\* C21: load() with the key missing, the stored text not valid JSON or the
\* storage unavailable returns null, and no load() lets an exception out.
C21_LoadNeverThrows ==
  outcome.op = "load" =>
    /\ ~outcome.raised
    /\ outcome.found \in {"missing", "corrupt", "unavailable"}
         => outcome.result = null

\* load() has met a damaged text while the level in memory was above 0.
C21_Witness ==
  /\ outcome.op = "load"
  /\ outcome.found = "corrupt"
  /\ outcome.result = null
  /\ ~outcome.raised
  /\ collisions > 0

\* C22: a save() whose storage write throws lets no exception out, reports
\* a warning and leaves the level, the droplets, the splashes, the
\* milestone flags and the store as they were; as no exception leaves
\* save, the frame loop goes on calling update.
C22_FailedSaveHarmless ==
  /\ [](outcome.op = "save" => ~outcome.raised)
  /\ [][(outcome'.op = "save" /\ outcome' # outcome /\ storageFails)
          => /\ outcome'.warning
             /\ <<waterLevel, droplets, splashEffects, milestones, storage>>'
                  = <<waterLevel, droplets, splashEffects, milestones,
                      storage>>]_vars

\* A save failed while a droplet was in flight, and a later update call let
\* that droplet raise the level.
C22_Witness ==
  /\ outcome.op = "save"
  /\ outcome.warning
  /\ ~outcome.raised
  /\ ticks > outcome.tick
  /\ collisions > 0
  /\ storage["record"] = null

----------------------------------------------------------------------------
(* Test runner claims                                                      *)

\* C25: when runAllTests is done, the suites it ran are those of the tester
\* classes the page defines together with the four built-in suites, and the
\* results of each of them are its tests' results, not a suite error.
C25_EverySuiteRecorded ==
  runnerPc = "done" =>
    /\ Range(testSuites) = definedClasses \cup Range(BuiltInSuites)
    /\ \A i \in DOMAIN testSuites :
         /\ runnerResults[testSuites[i]] # <<>>
         /\ runnerResults[testSuites[i]] # <<SuiteError(testSuites[i])>>
    /\ \A i \in DOMAIN BuiltInSuites :
         Len(runnerResults[BuiltInSuites[i]]) = Len(TestNames(BuiltInSuites[i]))

====
